---- MODULE Spec2Model ----
(***************************************************************************)
(* Polar Plotter (src/app.py): a Streamlit script that is re-run from top  *)
(* to bottom on every user interaction.  The state that survives between   *)
(* runs is the selected data-entry option, the table held by the data      *)
(* editor / file uploader, and the keyed style widgets (st.session_state). *)
(* One action of the model is one interaction together with the complete   *)
(* script run it triggers.                                                  *)
(*                                                                         *)
(* Representation.  Slider values with step 0.1 are kept in tenths         *)
(* (Dec(0,5) is 0.5).  Colour strings are sequences of one-character       *)
(* strings so that lstrip, slicing and int(.,16) can be computed.  A       *)
(* DataFrame is the sequence of its columns (each a sequence of cells);     *)
(* "bound" is FALSE when the name input_df was never assigned.             *)
(***************************************************************************)
EXTENDS Integers, Sequences, FiniteSets, TLC

VARIABLES option, input_df, style, out, prev, event, nsteps

vars == <<option, input_df, style, out, prev, event, nsteps>>

-----------------------------------------------------------------------------
(* Bounds of the model *)

\* interactions per session
MaxSteps == 2
\* rows the data editor or an uploaded file may hold in the session
MaxRows == 2
\* columns an uploaded file may hold
MaxCols == 3
\* rows of the built-in example dataset that are kept
ExampleRows == 2
\* rows of the tables the build is applied to in SpecBuild
BuildRows == 3

-----------------------------------------------------------------------------
(* Helpers *)

\* the decimal i.t, in tenths
Dec(i, t) == 10 * i + t

Min(a, b) == IF a < b THEN a ELSE b

\* xs[::-1]
Reverse(xs) == [i \in 1..Len(xs) |-> xs[Len(xs) + 1 - i]]

\* Python s[i:j] for 0 <= i <= j (clamped to the length of s)
Slice(s, i, j) == SubSeq(s, i + 1, Min(j, Len(s)))

RECURSIVE LStrip(_, _)
\* s.lstrip(c): every leading c is removed
LStrip(s, c) ==
    IF s # <<>> /\ Head(s) = c THEN LStrip(Tail(s), c) ELSE s

HexLower == <<"0", "1", "2", "3", "4", "5", "6", "7", "8", "9",
              "a", "b", "c", "d", "e", "f">>
HexUpper == <<"0", "1", "2", "3", "4", "5", "6", "7", "8", "9",
              "A", "B", "C", "D", "E", "F">>

\* value of one base-16 digit, -1 when c is no digit
DigitValue(c) ==
    IF \E i \in 1..16 : HexLower[i] = c
    THEN (CHOOSE i \in 1..16 : HexLower[i] = c) - 1
    ELSE IF \E i \in 1..16 : HexUpper[i] = c
    THEN (CHOOSE i \in 1..16 : HexUpper[i] = c) - 1
    ELSE -1

RECURSIVE IntAcc(_, _)
IntAcc(s, acc) ==
    IF s = <<>> THEN acc
    ELSE IF DigitValue(Head(s)) < 0 THEN -1
    ELSE IntAcc(Tail(s), 16 * acc + DigitValue(Head(s)))

\* int(s, 16) on strings of digits, letters and '#': -1 stands for ValueError
\* (the empty string and any non-digit raise)
IntBase16(s) == IF s = <<>> THEN -1 ELSE IntAcc(s, 0)

\* repr of a float kept in tenths: 5 -> "0.5", 10 -> "1.0"
FloatStr(t) == ToString(t \div 10) \o "." \o ToString(t % 10)

\* str of the tuple (r, g, b, a)
TupleStr(t) ==
    "(" \o ToString(t[1]) \o ", " \o ToString(t[2]) \o ", "
        \o ToString(t[3]) \o ", " \o FloatStr(t[4]) \o ")"

RECURSIVE Join(_, _)
\* sep.join(xs)
Join(sep, xs) ==
    IF xs = <<>> THEN ""
    ELSE IF Len(xs) = 1 THEN xs[1]
    ELSE xs[1] \o sep \o Join(sep, Tail(xs))

-----------------------------------------------------------------------------
(* Data entry *)

Example == "Play with example data"
Upload == "Upload an excel file"
Manual == "Add data manually"

Options == {Example, Upload, Manual}

ExampleSkill ==
    <<"Computer Vision", "Prototyping", "Classic ML", "AE/VAE",
      "Visualization", "Storytelling", "BI", "SQL", "Deploy", "MLOps",
      "Excel", "Reporting", "ViT", "Diffusers", "Python", "NLP">>

\* in tenths
ExampleProficiency ==
    <<42, 47, 23, 40, 19, 24, 5, 6, 2, 3, 50, 16, 40, 24, 34, 30>>

\* input_df was never assigned (upload option, no file yet)
Unbound == [bound |-> FALSE, cols |-> <<>>]

Df(cols) == [bound |-> TRUE, cols |-> cols]

ExampleDf ==
    Df(<<SubSeq(ExampleSkill, 1, ExampleRows),
         SubSeq(ExampleProficiency, 1, ExampleRows)>>)

\* pd.DataFrame(columns=["Label", "Value"])
ManualDf == Df(<<<<>>, <<>>>>)

\* what the data-entry block binds input_df to right after option o is picked
BaseDf(o) ==
    IF o = Upload THEN Unbound
    ELSE IF o = Manual THEN ManualDf
    ELSE ExampleDf

NRows(df) == IF df.cols = <<>> THEN 0 ELSE Len(df.cols[1])

-----------------------------------------------------------------------------
(* Style widgets and _reset *)

JobRequirements == "Job Requirements"

DefaultColor == <<"#", "6", "3", "6", "E", "F", "A">>

DefaultHover == "%{theta}: %{r}"

\* default of the title text_input
TitleDefault(o) == IF o = Example THEN JobRequirements ELSE ""

\* the values the keyed widgets take in a fresh session
WidgetDefaults(o) ==
    [title |-> TitleDefault(o),
     opacity |-> Dec(1, 0),
     mode |-> <<"lines", "markers">>,
     hovertemplate |-> DefaultHover,
     marker_color |-> DefaultColor,
     marker_opacity |-> Dec(1, 0),
     marker_size |-> 6,
     marker_symbol |-> "circle",
     line_color |-> DefaultColor,
     line_dash |-> "solid",
     line_shape |-> "linear",
     line_smoothing |-> Dec(1, 0),
     line_width |-> 2,
     fillcolor |-> DefaultColor,
     fill_opacity |-> Dec(0, 5)]

\* _reset with one assignment forgotten
ResetForgetsWidth(s) ==
    [s EXCEPT !.title = "",
              !.hovertemplate = DefaultHover,
              !.opacity = Dec(1, 0),
              !.marker_opacity = Dec(1, 0),
              !.line_smoothing = Dec(1, 0),
              !.mode = <<"lines", "markers">>,
              !.marker_color = DefaultColor,
              !.line_color = DefaultColor,
              !.fillcolor = DefaultColor,
              !.marker_size = 6,
              !.marker_symbol = "circle",
              !.line_dash = "solid",
              !.line_shape = "linear",
              !.fill_opacity = Dec(0, 5)]

\* _reset(): the session-state mapping s after the callback
ResetState(s) ==
    [s EXCEPT !.title = "",
              !.hovertemplate = DefaultHover,
              !.opacity = Dec(1, 0),
              !.marker_opacity = Dec(1, 0),
              !.line_smoothing = Dec(1, 0),
              !.mode = <<"lines", "markers">>,
              !.marker_color = DefaultColor,
              !.line_color = DefaultColor,
              !.fillcolor = DefaultColor,
              !.marker_size = 6,
              !.marker_symbol = "circle",
              !.line_dash = "solid",
              !.line_shape = "linear",
              !.line_width = 2,
              !.fill_opacity = Dec(0, 5)]

\* the values a user may give each widget (a sample of each widget's range)
StyleChoices ==
    [title |-> {"", JobRequirements, "My plot"},
     opacity |-> {Dec(1, 0), Dec(0, 5)},
     mode |-> {<<>>, <<"lines">>, <<"markers">>,
               <<"lines", "markers">>, <<"markers", "lines">>},
     hovertemplate |-> {DefaultHover, "%{r}"},
     marker_color |-> {DefaultColor, <<"#", "0", "0", "0", "0", "0", "0">>},
     marker_opacity |-> {Dec(1, 0), Dec(0, 5)},
     marker_size |-> {6, 10},
     marker_symbol |-> {"circle", "arrow"},
     line_color |-> {DefaultColor, <<"#", "0", "0", "0", "0", "0", "0">>},
     line_dash |-> {"solid", "dot"},
     line_shape |-> {"linear", "spline"},
     line_smoothing |-> {Dec(1, 0), Dec(1, 3)},
     line_width |-> {2, 0},
     fillcolor |-> {DefaultColor, <<"#", "f", "f", "0", "0", "a", "a">>},
     fill_opacity |-> {Dec(0, 5), Dec(1, 0)}]

-----------------------------------------------------------------------------
(* One run of the script: sidebar, then the VISUALIZATION block *)

\* the channels are taken blue-first
RgbaBGR(fillcolor, fill_opacity) ==
    LET hex == LStrip(fillcolor, "#")
        ch == [k \in 1..3 |-> IntBase16(Slice(hex, 6 - 2 * k, 8 - 2 * k))]
    IN IF \E k \in 1..3 : ch[k] < 0
       THEN [ok |-> FALSE, val |-> <<>>]
       ELSE [ok |-> TRUE, val |-> <<ch[1], ch[2], ch[3], fill_opacity>>]

\* rgba = tuple([int(fillcolor.lstrip("#")[i:i+2], 16) for i in (0, 2, 4)]
\*              + [fill_opacity]);  ok is FALSE when int raises ValueError
Rgba(fillcolor, fill_opacity) ==
    LET hex == LStrip(fillcolor, "#")
        ch == [k \in 1..3 |-> IntBase16(Slice(hex, 2 * k - 2, 2 * k))]
    IN IF \E k \in 1..3 : ch[k] < 0
       THEN [ok |-> FALSE, val |-> <<>>]
       ELSE [ok |-> TRUE, val |-> <<ch[1], ch[2], ch[3], fill_opacity>>]

\* the exception the table lookups of the VISUALIZATION block raise, in the
\* order of the statements: input_df unbound, columns[0], columns[1],
\* labels[0] / values[0] of an empty column
LookupError(df) ==
    IF ~df.bound THEN "NameError"
    ELSE IF Len(df.cols) < 1 THEN "IndexError"
    ELSE IF Len(df.cols) < 2 THEN "IndexError"
    ELSE IF Len(df.cols[1]) = 0 THEN "IndexError"
    ELSE "none"

\* only NameError is suppressed
SuppressedNameOnly(exc) == exc = "NameError"

\* contextlib.suppress(IndexError, NameError)
Suppressed(exc) == exc \in {"IndexError", "NameError"}

\* the polygon is closed but not reversed
ClosePolygonNoReverse(xs) == xs \o <<xs[1]>>

\* (xs + [xs[0]])[::-1]
ClosePolygon(xs) == Reverse(xs \o <<xs[1]>>)

\* the selected modes joined with a comma
ModeAttrComma(mode) == IF mode = <<>> THEN "none" ELSE Join(",", mode)

\* mode="none" if mode == [] else "+".join(mode)
ModeAttr(mode) == IF mode = <<>> THEN "none" ELSE Join("+", mode)

\* fillcolor=f"RGBA{rgba}" if rgba else "RGBA(99, 110, 250, 0.5)"
FillColorAttr(rgba) ==
    IF rgba # <<>> THEN "RGBA" \o TupleStr(rgba)
    ELSE "RGBA(99, 110, 250, 0.5)"

\* the title is always the user's
LayoutTitleUser(o, title) == title

\* the title also tells an uploaded table from a typed one
LayoutTitleByOption(o, title) ==
    IF o = Example THEN JobRequirements
    ELSE IF o = Upload /\ title = "" THEN "Uploaded data"
    ELSE title

\* text="Job Requirements" if option == "Play with example data" else title
LayoutTitle(o, title) == IF o = Example THEN JobRequirements ELSE title

\* go.Figure(data=go.Scatterpolar(...), layout=go.Layout(...))
Figure(o, labels, values, st, rgba) ==
    [data |->
        [r |-> values,
         theta |-> labels,
         mode |-> ModeAttr(st.mode),
         opacity |-> st.opacity,
         hovertemplate |-> st.hovertemplate \o "<extra></extra>",
         marker_color |-> st.marker_color,
         marker_opacity |-> st.marker_opacity,
         marker_size |-> st.marker_size,
         marker_symbol |-> st.marker_symbol,
         line_color |-> st.line_color,
         line_dash |-> st.line_dash,
         line_shape |-> st.line_shape,
         line_smoothing |-> st.line_smoothing,
         line_width |-> st.line_width,
         fill |-> "toself",
         fillcolor |-> FillColorAttr(rgba)],
     layout |->
        [title |-> [text |-> LayoutTitle(o, st.title),
                    x |-> Dec(0, 5),
                    xanchor |-> "center"],
         paper_bgcolor |-> "rgba(100,100,100,0)",
         plot_bgcolor |-> "rgba(100,100,100,0)"]]

NoChart == [data |-> <<>>, layout |-> <<>>]

\* the export is written after the with-block, whatever happened in it
EffectsExportAlways(exc) ==
    (IF exc = "none" THEN <<"plotly_chart", "image">> ELSE <<>>)
        \o <<"write_html", "download_button">>

\* what the VISUALIZATION block shows and writes, in order: every statement
\* after a raising lookup is skipped
Effects(exc) ==
    IF exc = "none"
    THEN <<"plotly_chart", "image", "write_html", "download_button">>
    ELSE <<>>

\* with contextlib.suppress(IndexError, NameError): ... , after rgba was computed
Visualization(o, df, st, rgba) ==
    LET exc == LookupError(df) IN
    IF exc = "none"
    THEN [outcome |-> "rendered", raised |-> "none", rgba |-> rgba,
          chart |-> Figure(o, ClosePolygon(df.cols[1]),
                           ClosePolygon(df.cols[2]), st, rgba),
          shown |-> Effects(exc)]
    ELSE IF Suppressed(exc)
    THEN [outcome |-> "skipped", raised |-> exc, rgba |-> rgba,
          chart |-> NoChart, shown |-> Effects(exc)]
    ELSE [outcome |-> "error", raised |-> exc, rgba |-> rgba,
          chart |-> NoChart, shown |-> Effects(exc)]

\* the whole script run on (option, input_df, session state): the ValueError
\* of the rgba computation is raised in the sidebar, before the block above
Pass(o, df, st) ==
    LET c == Rgba(st.fillcolor, st.fill_opacity) IN
    IF ~c.ok
    THEN [outcome |-> "error", raised |-> "ValueError", rgba |-> <<>>,
          chart |-> NoChart, shown |-> <<>>]
    ELSE Visualization(o, df, st, c.val)

-----------------------------------------------------------------------------
(* The session: one interaction and the script run it triggers *)

SeqsUpTo(S, n) == UNION {[1..k -> S] : k \in 0..n}

\* the rows a user types or a spreadsheet holds
Labels == {"A", "B"}
Values == {1, 2}
RowKinds == {<<"A", 1>>, <<"B", 2>>}

\* a table of c columns: label, value, then columns the script never reads
Table(rows, c) ==
    Df([j \in 1..c |->
        [i \in 1..Len(rows) |-> IF j <= 2 THEN rows[i][j] ELSE "x"]])

\* pd.read_excel(uploaded_file): whatever the spreadsheet holds
Files ==
    {Table(rows, c) : rows \in SeqsUpTo(RowKinds, MaxRows), c \in 0..MaxCols}
        \cup {ExampleDf}

NoPrev ==
    [valid |-> FALSE, option |-> Example, input_df |-> Unbound,
     style |-> WidgetDefaults(Example), chart |-> NoChart]

\* the run that is on screen, kept when it showed a chart
Snapshot ==
    IF out.outcome = "rendered"
    THEN [valid |-> TRUE, option |-> option, input_df |-> input_df,
          style |-> style, chart |-> out.chart]
    ELSE prev

\* a widget event: the new widget values, then the script runs top to bottom
Interact(o, df, st, ev) ==
    /\ nsteps < MaxSteps
    /\ option' = o
    /\ input_df' = df
    /\ style' = st
    /\ out' = Pass(o, df, st)
    /\ prev' = Snapshot
    /\ event' = ev
    /\ nsteps' = nsteps + 1

Init ==
    /\ option = Example
    /\ input_df = ExampleDf
    /\ style = WidgetDefaults(Example)
    /\ out = Pass(Example, ExampleDf, WidgetDefaults(Example))
    /\ prev = NoPrev
    /\ event = "start"
    /\ nsteps = 0

\* st.radio: another option is picked.  The data-entry block rebinds
\* input_df; the title field keeps its text or is re-seeded with the default
\* of the new option (the text_input's value argument depends on option)
SelectOption(o, t) ==
    /\ o # option
    /\ t \in {style.title, TitleDefault(o)}
    /\ Interact(o, BaseDf(o), [style EXCEPT !.title = t], "option")

\* st.file_uploader: a file is chosen (input_df is what read_excel returns)
\* or the uploader is cleared (input_df is not assigned in the next run)
UploadFile(f) ==
    /\ option = Upload
    /\ f # input_df
    /\ Interact(option, f, style, "upload")

\* st.data_editor(num_rows="dynamic"): a row is added
AddRow(r) ==
    /\ option # Upload
    /\ NRows(input_df) < MaxRows
    /\ Interact(option,
                Df(<<Append(input_df.cols[1], r[1]),
                     Append(input_df.cols[2], r[2])>>),
                style, "edit")

\* st.data_editor(num_rows="dynamic"): row i is deleted
DeleteRow(i) ==
    /\ option # Upload
    /\ i \in 1..NRows(input_df)
    /\ Interact(option,
                Df([j \in 1..2 |->
                    [k \in 1..(NRows(input_df) - 1) |->
                        IF k < i THEN input_df.cols[j][k]
                        ELSE input_df.cols[j][k + 1]]]),
                style, "edit")

\* st.data_editor: the cell of row i, column j is overwritten
EditCell(i, j, v) ==
    /\ option # Upload
    /\ i \in 1..NRows(input_df)
    /\ v # input_df.cols[j][i]
    /\ Interact(option,
                Df([input_df.cols EXCEPT ![j][i] = v]),
                style, "edit")

\* a keyed sidebar widget gets a new value; the smoothing slider is disabled
\* while the line shape is "linear"
EditStyle(k, v) ==
    /\ v # style[k]
    /\ k = "line_smoothing" => style.line_shape # "linear"
    /\ Interact(option, input_df, [style EXCEPT ![k] = v], "style")

\* the button also re-creates the data editor
ResetClearsTable ==
    /\ out.raised # "ValueError"
    /\ Interact(option, BaseDf(option), ResetState(style), "reset")

\* st.button("Reset to defaults", on_click=_reset): the callback runs, then
\* the script
Reset ==
    /\ out.raised # "ValueError"
    /\ Interact(option, input_df, ResetState(style), "reset")

Next ==
    \/ \E o \in Options, t \in StyleChoices.title : SelectOption(o, t)
    \/ \E f \in Files \cup {Unbound} : UploadFile(f)
    \/ \E r \in RowKinds : AddRow(r)
    \/ \E i \in 1..MaxRows : DeleteRow(i)
    \/ \E i \in 1..MaxRows : \E v \in Labels : EditCell(i, 1, v)
    \/ \E i \in 1..MaxRows : \E v \in Values : EditCell(i, 2, v)
    \/ \E k \in DOMAIN StyleChoices : \E v \in StyleChoices[k] :
          EditStyle(k, v)
    \/ Reset

Spec == Init /\ [][Next]_vars

-----------------------------------------------------------------------------
(* The script run as a function of its inputs *)

BuildLabels == {"A", "B", "C"}
BuildValues == {1, 2, 3}

BuildTables ==
    {Table(rows, c) : rows \in SeqsUpTo(BuildLabels \X BuildValues, BuildRows),
                      c \in 0..MaxCols}
        \cup {Unbound}

BuildDigits == {"0", "3", "6", "A", "E", "F"}

\* '#' and six hexadecimal digits, as st.color_picker returns them
PickerColors ==
    {<<"#">> \o d : d \in [1..6 -> BuildDigits]}
        \cup {<<"#", "f", "f", "0", "0", "a", "a">>}

\* strings that are not '#' and six hexadecimal digits
OtherColors ==
    {<<"#", "G", "G", "G", "G", "G", "G">>,
     <<"#", "F", "F", "F">>,
     <<"#", "1", "2", "3", "4", "5">>,
     <<"6", "3", "6", "E", "F", "A">>,
     <<"#", "#", "6", "3", "6", "E", "F", "A">>,
     <<"#", "6", "3", "6", "E", "F", "A", "0">>,
     <<>>}

NotRun ==
    [outcome |-> "pending", raised |-> "none", rgba |-> <<>>,
     chart |-> NoChart, shown |-> <<>>]

InitBuild ==
    /\ \/ /\ option \in Options
          /\ input_df \in BuildTables
          /\ style = WidgetDefaults(option)
       \/ /\ option = Example
          /\ input_df = ExampleDf
          /\ \E c \in PickerColors \cup OtherColors :
             \E a \in StyleChoices.fill_opacity :
                style = [WidgetDefaults(Example) EXCEPT !.fillcolor = c,
                                                        !.fill_opacity = a]
    /\ out = NotRun
    /\ prev = NoPrev
    /\ event = "start"
    /\ nsteps = 0

\* the script runs on the inputs
Rerun ==
    /\ out.outcome = "pending"
    /\ out' = Pass(option, input_df, style)
    /\ event' = "run"
    /\ UNCHANGED <<option, input_df, style, prev, nsteps>>

SpecBuild == InitBuild /\ [][Rerun]_vars

-----------------------------------------------------------------------------
(* The script run twice: each run is given a table, an option and style    *)
(* values the session can hold, and the run before it stays in prev        *)

TwiceTables ==
    {Unbound, ExampleDf} \cup {Table(rows, 2) : rows \in SeqsUpTo(RowKinds, 1)}

TwiceStyles(o) ==
    {[WidgetDefaults(o) EXCEPT !.title = t, !.mode = m] :
        t \in StyleChoices.title, m \in {<<>>, <<"lines", "markers">>}}

\* the script runs on other inputs
Rebuild(o, df, st) == Interact(o, df, st, "inputs")

NextTwice ==
    \E o \in Options, df \in TwiceTables : \E st \in TwiceStyles(o) :
        Rebuild(o, df, st)

SpecTwice == Init /\ [][NextTwice]_vars

-----------------------------------------------------------------------------
(* Claims *)

HexDigitSet ==
    {"0", "1", "2", "3", "4", "5", "6", "7", "8", "9",
     "a", "b", "c", "d", "e", "f", "A", "B", "C", "D", "E", "F"}

\* '#' followed by six hexadecimal digits
ValidColor(c) ==
    /\ Len(c) = 7
    /\ c[1] = "#"
    /\ \A i \in 2..7 : c[i] \in HexDigitSet

\* the table has at least two columns and at least one row
ValidTable(df) == df.bound /\ Len(df.cols) >= 2 /\ Len(df.cols[1]) >= 1

Rendered == out.outcome = "rendered"

ABC == Table(<<<<"A", 1>>, <<"B", 2>>, <<"C", 3>>>>, 2)

\* C1: a valid table of N rows gives a trace of N+1 points; point 1 is row 1
\* and points 2..N+1 are rows N..1, for the labels and for the values alike;
\* [(A,1),(B,2),(C,3)] gives labels [A,C,B,A] and values [1,3,2,1]
C1_ClosedReversed ==
    /\ (ValidTable(input_df) /\ ValidColor(style.fillcolor) /\ event = "run")
          => Rendered
    /\ Rendered =>
        LET N == Len(input_df.cols[1])
            th == out.chart.data.theta
            r == out.chart.data.r
        IN /\ ValidTable(input_df)
           /\ Len(th) = N + 1
           /\ Len(r) = N + 1
           /\ th[1] = input_df.cols[1][1]
           /\ r[1] = input_df.cols[2][1]
           /\ \A i \in 2..(N + 1) :
                /\ th[i] = input_df.cols[1][N + 2 - i]
                /\ r[i] = input_df.cols[2][N + 2 - i]
           /\ input_df = ABC =>
                /\ th = <<"A", "C", "B", "A">>
                /\ r = <<1, 3, 2, 1>>

C1_Witness ==
    /\ Rendered
    /\ input_df = ABC
    /\ out.chart.data.theta = <<"A", "C", "B", "A">>
    /\ out.chart.data.r = <<1, 3, 2, 1>>

DocumentedDefaults ==
    [title |-> "",
     opacity |-> Dec(1, 0),
     marker_opacity |-> Dec(1, 0),
     line_smoothing |-> Dec(1, 0),
     mode |-> <<"lines", "markers">>,
     marker_color |-> <<"#", "6", "3", "6", "E", "F", "A">>,
     line_color |-> <<"#", "6", "3", "6", "E", "F", "A">>,
     fillcolor |-> <<"#", "6", "3", "6", "E", "F", "A">>,
     marker_size |-> 6,
     marker_symbol |-> "circle",
     line_dash |-> "solid",
     line_shape |-> "linear",
     line_width |-> 2,
     fill_opacity |-> Dec(0, 5),
     hovertemplate |-> "%{theta}: %{r}"]

\* C2: right after reset() every style field has its documented default,
\* whatever the fields held before, and the run after it raises nothing
C2_ResetYieldsDefaults ==
    event = "reset" =>
        /\ style = DocumentedDefaults
        /\ out.outcome \in {"rendered", "skipped"}

C2_Witness ==
    /\ event = "reset"
    /\ prev.valid
    /\ prev.style.line_width # 2
    /\ prev.style # DocumentedDefaults
    /\ style = DocumentedDefaults

\* C3: with no table, a table of no rows or a table of fewer than two
\* columns the run raises nothing, skips the rendering and shows no chart
C3_NoChartNoError ==
    ~ValidTable(input_df) =>
        /\ out.outcome = "skipped"
        /\ out.raised \in {"IndexError", "NameError"}
        /\ out.chart = NoChart
        /\ out.shown = <<>>

C3_Witness ==
    /\ input_df.bound
    /\ Len(input_df.cols) = 1
    /\ Len(input_df.cols[1]) >= 1
    /\ out.outcome = "skipped"
    /\ out.chart = NoChart

C5_DeterminedByTableAndStyle ==
    (/\ prev.valid
     /\ Rendered
     /\ prev.input_df = input_df
     /\ prev.style = style)
        => prev.chart = out.chart

\* C5: two runs on the same table and the same style values, in both of
\* which or in neither of which the example option is selected, give the
\* same chart description
C5_DeterminedByTableStyleExample ==
    (/\ prev.valid
     /\ Rendered
     /\ prev.input_df = input_df
     /\ prev.style = style
     /\ ((prev.option = Example) <=> (option = Example)))
        => prev.chart = out.chart

C5_Witness ==
    /\ prev.valid
    /\ Rendered
    /\ prev.input_df = input_df
    /\ prev.style = style
    /\ style.title = ""
    /\ prev.option = Upload
    /\ option = Manual
    /\ prev.chart = out.chart

\* value of the two-digit hexadecimal number hi lo
ByteOf(hi, lo) ==
    LET val == [c \in HexDigitSet |->
                   CASE c = "0" -> 0 [] c = "1" -> 1 [] c = "2" -> 2
                     [] c = "3" -> 3 [] c = "4" -> 4 [] c = "5" -> 5
                     [] c = "6" -> 6 [] c = "7" -> 7 [] c = "8" -> 8
                     [] c = "9" -> 9
                     [] c \in {"a", "A"} -> 10 [] c \in {"b", "B"} -> 11
                     [] c \in {"c", "C"} -> 12 [] c \in {"d", "D"} -> 13
                     [] c \in {"e", "E"} -> 14 [] c \in {"f", "F"} -> 15]
    IN 16 * val[hi] + val[lo]

\* C6: for a fill colour '#RRGGBB' and a fill opacity a the fill RGBA is
\* (RR, GG, BB, a) with each pair read as a byte, and that tuple is what the
\* trace's fill colour spells; "#636EFA" gives (99, 110, 250, a)
C6_RgbaChannels ==
    (ValidColor(style.fillcolor) /\ event = "run") =>
        LET c == style.fillcolor IN
        /\ out.rgba = <<ByteOf(c[2], c[3]), ByteOf(c[4], c[5]),
                        ByteOf(c[6], c[7]), style.fill_opacity>>
        /\ \A k \in 1..3 : out.rgba[k] \in 0..255
        /\ c = <<"#", "6", "3", "6", "E", "F", "A">> =>
              SubSeq(out.rgba, 1, 3) = <<99, 110, 250>>
        /\ (Rendered /\ c = <<"#", "6", "3", "6", "E", "F", "A">>
                /\ style.fill_opacity = Dec(0, 5)) =>
              out.chart.data.fillcolor = "RGBA(99, 110, 250, 0.5)"

C6_Witness ==
    /\ event = "run"
    /\ style.fillcolor = <<"#", "F", "F", "0", "0", "A", "E">>
    /\ style.fill_opacity = Dec(1, 0)
    /\ out.rgba = <<255, 0, 174, Dec(1, 0)>>
    /\ Rendered
    /\ out.chart.data.fillcolor = "RGBA(255, 0, 174, 1.0)"

\* C7: the step of reset() leaves the table and the selected data-entry
\* option as they were
C7_ResetKeepsTable ==
    [][event' = "reset" => (input_df' = input_df /\ option' = option)]_vars

C7_Witness ==
    /\ event = "reset"
    /\ input_df # BaseDf(option)
    /\ style = DocumentedDefaults

\* C8: the chart title is "Job Requirements" whenever the example option is
\* selected, whatever the title field holds, and the title field otherwise
C8_ChartTitle ==
    Rendered =>
        out.chart.layout.title.text =
            IF option = Example THEN "Job Requirements" ELSE style.title

C8_Witness ==
    /\ event = "reset"
    /\ option = Example
    /\ style.title = ""
    /\ Rendered
    /\ out.chart.layout.title.text = "Job Requirements"

\* C9: the draw mode is "none" exactly when no mode is selected, otherwise
\* the selected modes joined by "+" in selection order; after reset() it is
\* "lines+markers"
C9_DrawMode ==
    Rendered =>
        LET m == out.chart.data.mode
            sel == style.mode
        IN /\ (m = "none") <=> (sel = <<>>)
           /\ sel = <<"lines">> => m = "lines"
           /\ sel = <<"markers">> => m = "markers"
           /\ sel = <<"lines", "markers">> => m = "lines+markers"
           /\ sel = <<"markers", "lines">> => m = "markers+lines"
           /\ m \in {"none", "lines", "markers", "lines+markers",
                     "markers+lines"}
           /\ event = "reset" => m = "lines+markers"

C9_Witness ==
    /\ Rendered
    /\ style.mode = <<"markers", "lines">>
    /\ out.chart.data.mode = "markers+lines"

IndexIn(s, x) == CHOOSE i \in 1..Len(s) : s[i] = x

Shows(x) == \E i \in 1..Len(out.shown) : out.shown[i] = x

\* C10: in one run the export (file written, download offered) comes only
\* after the chart was shown; a run whose table lookup fails exports
\* nothing, and a run that shows a chart offers the export
C10_ExportAfterRender ==
    /\ \A i \in 1..Len(out.shown) :
          out.shown[i] \in {"write_html", "download_button"} =>
              \E j \in 1..(i - 1) : out.shown[j] = "plotly_chart"
    /\ ~ValidTable(input_df) =>
          ~Shows("write_html") /\ ~Shows("download_button")
    /\ Shows("plotly_chart") =>
          /\ Shows("write_html")
          /\ Shows("download_button")
          /\ IndexIn(out.shown, "write_html")
                < IndexIn(out.shown, "download_button")
    /\ Rendered <=> Shows("plotly_chart")

C10_Witness ==
    /\ nsteps > 0
    /\ event = "edit"
    /\ Rendered
    /\ Shows("plotly_chart")
    /\ IndexIn(out.shown, "plotly_chart") < IndexIn(out.shown, "write_html")
    /\ Shows("download_button")

====
